---- MODULE Spec2Model ----
(***************************************************************************)
(* Model of predict.py: the batch prediction pipeline (validation, the     *)
(* per-record model loop, health analysis, aggregation, the printed        *)
(* result) and its pure helpers.                                           *)
(*                                                                         *)
(* Python values are records [k, n, d, s]: k is the Python type, n/d the   *)
(* exact rational value of a number (d > 0), s the text of a string.       *)
(*   "NoneType"  None (also what dict.get gives for an absent key)         *)
(*   "int"       an int that float() can convert                           *)
(*   "bigint"    an int above the float range (a JSON integer literal of   *)
(*               more than 308 digits): float() raises OverflowError       *)
(*   "float"     a finite float;  "nan", "inf": the non-finite floats      *)
(*   "str"       a string                                                  *)
(* Floating-point rounding is not modelled: sums and means are exact.      *)
(***************************************************************************)
EXTENDS Integers, Sequences, FiniteSets, TLC

\* ---------------------------------------------------------------- bounds
\* Largest accepted batch the pipeline specification explores.
MaxBatch == 2
\* Longest predictions_list handed to aggregate_predictions on its own.
MaxAggLen == 3
\* Tenths explored on either side of each threshold of the rule engine.
Spread == 3

\* ------------------------------------------------------- program constants
\* validate_input: the maximum array length.
MaxLength == 1800

\* ---------------------------------------------------------------- values
None == [k |-> "NoneType", n |-> 0, d |-> 1, s |-> ""]
PyInt(n) == [k |-> "int", n |-> n, d |-> 1, s |-> ""]
BigInt == [k |-> "bigint", n |-> 0, d |-> 1, s |-> ""]
Float(n, d) == [k |-> "float", n |-> n, d |-> d, s |-> ""]
NaN == [k |-> "nan", n |-> 0, d |-> 1, s |-> ""]
Inf == [k |-> "inf", n |-> 0, d |-> 1, s |-> ""]
Str(s) == [k |-> "str", n |-> 0, d |-> 1, s |-> s]

\* x < c/cd for a finite number x (exact).
Lt(x, c, cd) == x.n * cd < c * x.d
\* c/cd <= x
Ge(x, c, cd) == ~Lt(x, c, cd)

\* dict.get(key): None for an absent key.
Get(dict, key) == IF key \in DOMAIN dict THEN dict[key] ELSE None
\* dict.get(key, default)
GetOr(dict, key, default) == IF key \in DOMAIN dict THEN dict[key] ELSE default

\* float(s) for a string: the numeric texts that occur in the model parse,
\* every other text raises ValueError.
float_of_str(s) ==
  CASE s = "110" -> [exc |-> "", v |-> Float(110, 1)]
    [] s = "1"   -> [exc |-> "", v |-> Float(1, 1)]
    [] s = "2"   -> [exc |-> "", v |-> Float(2, 1)]
    [] s = "1.0" -> [exc |-> "", v |-> Float(1, 1)]
    [] s = "2.0" -> [exc |-> "", v |-> Float(2, 1)]
    [] OTHER     -> [exc |-> "ValueError", v |-> None]

\* float(value): the converted value, or the exception raised.
PyFloat(value) ==
  CASE value.k = "NoneType" -> [exc |-> "TypeError", v |-> None]
    [] value.k = "int"      -> [exc |-> "", v |-> Float(value.n, value.d)]
    [] value.k = "bigint"   -> [exc |-> "OverflowError", v |-> None]
    [] value.k = "str"      -> float_of_str(value.s)
    [] OTHER                -> [exc |-> "", v |-> value]

\* str(x) of a float that occurs as a prediction.
float_repr(x) ==
  CASE x.k = "nan" -> "nan"
    [] x.k = "inf" -> "inf"
    [] x.n = x.d -> "1.0"
    [] x.n = 2 * x.d -> "2.0"
    [] x.n = 3 * x.d -> "3.0"
    [] OTHER -> "?"

\* str(x)
PyStr(x) == IF x.k = "str" THEN x ELSE Str(float_repr(x))

\* is_valid_number(value): "True", "False", or the exception that escapes it
\* (only ValueError and TypeError are caught).
is_valid_number(value) ==
  IF value.k = "NoneType" THEN "False"
  ELSE LET f == PyFloat(value) IN
       IF f.exc \in {"ValueError", "TypeError"} THEN "False"
       ELSE IF f.exc # "" THEN f.exc
       ELSE IF f.v.k \in {"nan", "inf"} THEN "False" ELSE "True"

\* Exact sum of a sequence of finite numbers.
RECURSIVE RatSum(_)
RatSum(values) ==
  IF values = <<>> THEN [n |-> 0, d |-> 1]
  ELSE LET h == Head(values)
           t == RatSum(Tail(values))
       IN [n |-> h.n * t.d + t.n * h.d, d |-> h.d * t.d]

\* Some element makes is_valid_number raise.
ValidityRaises(values) ==
  \E j \in 1..Len(values) : is_valid_number(values[j]) \notin {"True", "False"}

\* [x for x in values if is_valid_number(x)]
ValidOnly(values) == SelectSeq(values, LAMBDA v : is_valid_number(v) = "True")

\* [float(v) for v in values]
Floats(values) == [j \in 1..Len(values) |-> PyFloat(values[j]).v]

\* safe_mean(values), for values none of which makes is_valid_number raise.
safe_mean(values) ==
  LET valid_values == Floats(ValidOnly(values)) IN
  IF valid_values = <<>> THEN None
  ELSE LET t == RatSum(valid_values)
       IN Float(t.n, t.d * Len(valid_values))

\* ------------------------------------------------------------ rule engine
UnknownCondition == "Unknown Condition - Insufficient Data"

\* Faulty variant: the first temperature test is "<= 80".
evaluate_machine_condition_inclusive(temperature, vibration) ==
  IF temperature = None \/ vibration = None THEN UnknownCondition
  ELSE IF temperature.n <= 80 * temperature.d /\ Lt(vibration, 18, 10) THEN "Safe Condition"
  ELSE IF Lt(temperature, 100, 1) /\ Lt(vibration, 28, 10) THEN "Maintain Condition"
  ELSE "Repair Condition"

evaluate_machine_condition(temperature, vibration) ==
  IF temperature = None \/ vibration = None THEN UnknownCondition
  ELSE IF Lt(temperature, 80, 1) /\ Lt(vibration, 18, 10) THEN "Safe Condition"
  ELSE IF Lt(temperature, 100, 1) /\ Lt(vibration, 28, 10) THEN "Maintain Condition"
  ELSE "Repair Condition"

detect_temperature_anomaly(temperature) ==
  IF temperature = None THEN "Unable to analyze temperature - Missing Data"
  ELSE IF Lt(temperature, 80, 1) THEN "No significant temperature anomaly detected"
  ELSE IF Ge(temperature, 80, 1) /\ Lt(temperature, 100, 1)
    THEN "Moderate Overheating - Check Lubrication"
  ELSE IF Ge(temperature, 100, 1) /\ Lt(temperature, 120, 1)
    THEN "Significant Overheating - Possible Misalignment or Bearing Wear"
  ELSE "Critical Overheating - Immediate Repair Needed"

detect_vibration_anomaly(vibration) ==
  IF vibration = None THEN "Unable to analyze vibration - Missing Data"
  ELSE IF Lt(vibration, 18, 10) THEN "No significant vibration anomaly detected"
  ELSE IF Ge(vibration, 18, 10) /\ Lt(vibration, 28, 10) THEN "Unbalance Fault"
  ELSE IF Ge(vibration, 28, 10) /\ Lt(vibration, 45, 10) THEN "Misalignment Fault"
  ELSE IF Ge(vibration, 45, 10) /\ Lt(vibration, 71, 10) THEN "Looseness Fault"
  ELSE "Bearing Fault or Gear Mesh Fault"

\* The values analyze_health reads from a record, in the order it checks them.
health_inputs(input_data) ==
  << Get(input_data, "temperature_one"), Get(input_data, "temperature_two"),
     Get(input_data, "vibration_x"), Get(input_data, "vibration_y"),
     Get(input_data, "vibration_z") >>

\* analyze_health raises (is_valid_number lets an exception escape).
analyze_health_raises(input_data) == ValidityRaises(health_inputs(input_data))

\* "Unknown Condition" in condition: of the four labels only UnknownCondition
\* contains that text.
ContainsUnknownCondition(condition) == condition = UnknownCondition

\* analyze_health(input_data), when it does not raise. The timestamp
\* (datetime.now()) is left out.
analyze_health(input_data) ==
  LET temp_values == << Get(input_data, "temperature_one"),
                        Get(input_data, "temperature_two") >>
      avg_temp == safe_mean(ValidOnly(temp_values))
      vib_values == << Get(input_data, "vibration_x"), Get(input_data, "vibration_y"),
                       Get(input_data, "vibration_z") >>
      avg_vibration == safe_mean(ValidOnly(vib_values))
      condition == evaluate_machine_condition(avg_temp, avg_vibration)
      overall_health ==
        IF ContainsUnknownCondition(condition) THEN "Unknown"
        ELSE IF condition = "Safe Condition" THEN "Healthy" ELSE "Unhealthy"
  IN [ complete_analysis |->
         [ machine_condition |-> condition,
           temperature_analysis |-> detect_temperature_anomaly(avg_temp),
           vibration_analysis |-> detect_vibration_anomaly(avg_vibration),
           data_completeness |->
             [ temperature |-> IF avg_temp # None THEN "Complete" ELSE "Incomplete",
               vibration |-> IF avg_vibration # None THEN "Complete" ELSE "Incomplete" ] ],
       overall_health |-> overall_health ]

\* ---------------------------------------------------------- configuration
model_names == << "temperature_model", "vibration_model", "magnetic_flux_model",
                  "audible_sound_model", "ultra_sound_model" >>

feature_sets(model_name) ==
  CASE model_name = "temperature_model" -> << "temperature_one", "temperature_two" >>
    [] model_name = "vibration_model" -> << "vibration_x", "vibration_y", "vibration_z" >>
    [] model_name = "magnetic_flux_model" ->
         << "magnetic_flux_x", "magnetic_flux_y", "magnetic_flux_z" >>
    [] model_name = "audible_sound_model" ->
         << "vibration_x", "vibration_y", "vibration_z", "audible_sound" >>
    [] model_name = "ultra_sound_model" ->
         << "vibration_x", "vibration_y", "vibration_z", "ultra_sound" >>

\* model_name.replace('_model', '')
Key(model_name) ==
  CASE model_name = "temperature_model" -> "temperature"
    [] model_name = "vibration_model" -> "vibration"
    [] model_name = "magnetic_flux_model" -> "magnetic_flux"
    [] model_name = "audible_sound_model" -> "audible_sound"
    [] model_name = "ultra_sound_model" -> "ultra_sound"

Keys == { Key(model_names[q]) : q \in 1..Len(model_names) }

InsufficientData == Str("Insufficient Data")

\* f"Prediction Error: {str(e)}"
PredictionError(msg) == Str("Prediction Error: " \o msg)

\* ------------------------------------------------- per-record model invoker
\* The feature loop of one model on one record: "ok" when every feature is a
\* valid number, "missing" at the first invalid one (the loop breaks there),
\* or the exception is_valid_number lets escape.
RECURSIVE check_features(_, _)
check_features(input_data, features) ==
  IF features = <<>> THEN "ok"
  ELSE LET r == is_valid_number(Get(input_data, Head(features))) IN
       IF r = "True" THEN check_features(input_data, Tail(features))
       ELSE IF r = "False" THEN "missing"
       ELSE r

\* What model.predict(X)[0] can do. The pickled models are opaque: each one
\* returns a numpy scalar of its own type, or raises.
model_predict(model_name) ==
  CASE model_name = "temperature_model" ->
         { [np |-> "floating", v |-> Float(2, 1), exc |-> ""],
           [np |-> "", v |-> None, exc |-> "boom"] }
    [] model_name = "vibration_model" ->
         { [np |-> "str_", v |-> Str("Faulty"), exc |-> ""],
           [np |-> "", v |-> None, exc |-> "boom"] }
    [] model_name = "magnetic_flux_model" ->
         { [np |-> "integer", v |-> PyInt(1), exc |-> ""],
           [np |-> "", v |-> None, exc |-> "boom"] }
    [] model_name = "audible_sound_model" ->
         { [np |-> "floating", v |-> Float(3, 1), exc |-> ""],
           [np |-> "", v |-> None, exc |-> "boom"] }
    [] model_name = "ultra_sound_model" ->
         { [np |-> "str_", v |-> Str("Normal"), exc |-> ""],
           [np |-> "", v |-> None, exc |-> "boom"] }

\* The try block of predict_from_models on what predict did: numpy numbers
\* become floats, everything else its str(); an exception becomes the
\* "Prediction Error" text.
normalize_prediction(raw) ==
  IF raw.exc # "" THEN PredictionError(raw.exc)
  ELSE IF raw.np \in {"integer", "floating"} THEN PyFloat(raw.v).v
  ELSE PyStr(raw.v)

\* ---------------------------------------------------------- batch aggregator
\* Number of elements of values equal to x.
Count(values, x) == Cardinality({ j \in 1..Len(values) : values[j] = x })

\* Counter(values).most_common(1)[0][0] for a non-empty list: the highest
\* count, the first-inserted key among equals.
most_common(values) ==
  LET best == { j \in 1..Len(values) :
                  \A l \in 1..Len(values) : Count(values, values[l]) <= Count(values, values[j]) }
      first == CHOOSE j \in best : \A l \in best : j <= l
  IN values[first]

\* isinstance(x, (int, float))
IsIntOrFloat(x) == x.k \in {"int", "bigint", "float", "nan", "inf"}

\* Faulty variant: the mean divides by the number of records that have the
\* key, sentinels included.
model_consensus_all_divisor(predictions_list, key) ==
  LET present == SelectSeq(predictions_list, LAMBDA pred : key \in DOMAIN pred)
      model_predictions == [j \in 1..Len(present) |-> present[j][key]]
      valid_predictions == ValidOnly(model_predictions)
  IN IF valid_predictions = <<>> THEN InsufficientData
     ELSE IF \A j \in 1..Len(valid_predictions) : IsIntOrFloat(valid_predictions[j])
       THEN LET t == RatSum(valid_predictions)
            IN Float(t.n, t.d * Len(model_predictions))
     ELSE PyStr(most_common(valid_predictions))

\* One iteration of the loop of aggregate_predictions: the consensus of key.
model_consensus(predictions_list, key) ==
  LET present == SelectSeq(predictions_list, LAMBDA pred : key \in DOMAIN pred)
      model_predictions == [j \in 1..Len(present) |-> present[j][key]]
      valid_predictions == ValidOnly(model_predictions)
  IN IF valid_predictions = <<>> THEN InsufficientData
     ELSE IF \A j \in 1..Len(valid_predictions) : IsIntOrFloat(valid_predictions[j])
       THEN LET t == RatSum(valid_predictions)
            IN Float(t.n, t.d * Len(valid_predictions))
     ELSE PyStr(most_common(valid_predictions))

aggregate_predictions(predictions_list) ==
  [key \in Keys |-> model_consensus(predictions_list, key)]

\* ---------------------------------------------------------- result reconciler
\* "Insufficient Data" in p.values()
HasInsufficient(p) == \E key \in DOMAIN p : p[key] = InsufficientData

\* The batch-level overall_health of predict_from_models.
batch_overall_health(health_analysis) ==
  LET health_statuses ==
        [j \in 1..Len(health_analysis) |->
           GetOr(health_analysis[j], "machine_condition", "Unknown")]
  IN IF \A j \in 1..Len(health_statuses) : health_statuses[j] = UnknownCondition
       THEN "Unknown - Insufficient Data"
     ELSE IF \E j \in 1..Len(health_analysis) :
               GetOr(health_analysis[j], "overall_health", "Unknown") = "Unhealthy"
       THEN "Unhealthy"
     ELSE "Healthy"

\* Faulty variant: a record with a "Prediction Error" value counts as incomplete too.
data_quality_errors_incomplete(total, all_preds) ==
  LET bad(p) == \E key \in DOMAIN p : p[key].k = "str" /\ float_of_str(p[key].s).exc # ""
  IN [ total_records |-> total,
       complete_records |-> Cardinality({ j \in 1..Len(all_preds) : ~bad(all_preds[j]) }),
       incomplete_records |-> Cardinality({ j \in 1..Len(all_preds) : bad(all_preds[j]) }) ]

\* data_quality of the result.
data_quality(total, all_preds) ==
  [ total_records |-> total,
    complete_records |->
      Cardinality({ j \in 1..Len(all_preds) : ~HasInsufficient(all_preds[j]) }),
    incomplete_records |->
      Cardinality({ j \in 1..Len(all_preds) : HasInsufficient(all_preds[j]) }) ]

\* The result predict_from_models returns, from the two lists its loop built.
build_result(total, all_preds, health) ==
  [ predictions |->
      [key \in Keys \cup {"overall_health"} |->
         IF key = "overall_health" THEN Str(batch_overall_health(health))
         ELSE aggregate_predictions(all_preds)[key]],
    complete_health_analysis |-> IF Len(health) = 1 THEN health[1] ELSE health,
    data_quality |-> data_quality(total, all_preds) ]

\* ------------------------------------------------------------ validation
\* Faulty variant: the empty-array test is missing.
validate_input_accepts_empty(input) ==
  IF ~input.isList THEN "Input must be an array"
  ELSE IF input.len > MaxLength THEN "Input array exceeds maximum length of 1800"
  ELSE ""

\* validate_input: the error message, "" for None. The parsed input is
\* [isList, len, recs]; recs holds the elements of an array of at most
\* MaxBatch elements (a longer array is rejected before any element is read).
validate_input(input) ==
  IF ~input.isList THEN "Input must be an array"
  ELSE IF input.len > MaxLength THEN "Input array exceeds maximum length of 1800"
  ELSE IF input.len = 0 THEN "Input array cannot be empty"
  ELSE ""

\* ------------------------------------------------------------------ state
VARIABLES
  stdin,             \* what sys.stdin.read() returns: malformed text or a JSON value
  pc,                \* position of the main script
  input_data_array,  \* json.loads(input_json)
  i,                 \* index of the record the loop is on (1-based)
  m,                 \* index in model_names of the model the loop is on
  predictions,       \* the current record's prediction dict
  all_predictions,   \* predict_from_models: all_predictions
  health_analysis,   \* predict_from_models: health_analysis
  result,            \* what predict_from_models returned
  stdout,            \* the values printed, in order
  exit_code,         \* -1 while running, then the process's exit code
  calls,             \* log of model.predict invocations: record index, model, exception
  call               \* a call of a pure function on its own: arguments and return

vars == << stdin, pc, input_data_array, i, m, predictions, all_predictions,
           health_analysis, result, stdout, exit_code, calls, call >>

pipeline_vars == << stdin, pc, input_data_array, i, m, predictions, all_predictions,
                    health_analysis, result, stdout, exit_code, calls >>

\* ----------------------------------------------------------------- inputs
\* A record with every field valid: temperatures averaging 70, vibration 1.0.
RecHealthy ==
  [ temperature_one |-> PyInt(60), temperature_two |-> Float(80, 1),
    vibration_x |-> Float(1, 1), vibration_y |-> Float(1, 1), vibration_z |-> Float(1, 1),
    magnetic_flux_x |-> PyInt(5), magnetic_flux_y |-> PyInt(5), magnetic_flux_z |-> PyInt(5),
    audible_sound |-> Float(50, 1), ultra_sound |-> Float(30, 1) ]

\* vibration_y null and vibration_z absent; temperatures (one of them a
\* numeric string) averaging 110.
RecPartial ==
  [ temperature_one |-> Str("110"), temperature_two |-> PyInt(110),
    vibration_x |-> Float(1, 1), vibration_y |-> None,
    magnetic_flux_x |-> PyInt(5), magnetic_flux_y |-> PyInt(5), magnetic_flux_z |-> PyInt(5),
    audible_sound |-> Float(50, 1), ultra_sound |-> Float(30, 1) ]

\* No usable field: NaN, Infinity, a non-numeric string, null, absent keys.
RecInvalid ==
  [ temperature_one |-> NaN, temperature_two |-> Inf,
    vibration_x |-> Str("abc"), vibration_y |-> None,
    magnetic_flux_y |-> PyInt(5), audible_sound |-> Str("abc") ]

\* An integer above the float range where the model loop reads it.
RecBigFlux ==
  [ temperature_one |-> Str("abc"), vibration_x |-> None,
    magnetic_flux_x |-> PyInt(5), magnetic_flux_y |-> BigInt, magnetic_flux_z |-> PyInt(5) ]

\* An integer above the float range behind an invalid feature: the model
\* loop breaks before it, analyze_health reads it.
RecBigTemp ==
  [ temperature_one |-> NaN, temperature_two |-> BigInt,
    vibration_x |-> Float(1, 1), vibration_y |-> Float(1, 1), vibration_z |-> Float(1, 1) ]

Records == { RecHealthy, RecPartial, RecInvalid, RecBigFlux, RecBigTemp }

Batches == UNION { [1..len -> Records] : len \in 0..MaxBatch }

\* The JSON values on stdin: a non-array, the arrays of at most MaxBatch
\* records, and an array one element too long.
JsonValues ==
  { [isList |-> FALSE, len |-> 0, recs |-> <<>>] }
  \cup { [isList |-> TRUE, len |-> Len(b), recs |-> b] : b \in Batches }
  \cup { [isList |-> TRUE, len |-> MaxLength + 1, recs |-> <<>>] }

NoValue == [isList |-> FALSE, len |-> 0, recs |-> <<>>]

Stdins ==
  { [malformed |-> TRUE, value |-> NoValue] }
  \cup { [malformed |-> FALSE, value |-> v] : v \in JsonValues }

NoCall == [fn |-> "", returned |-> FALSE]

Init ==
  /\ stdin \in Stdins
  /\ pc = "start"
  /\ input_data_array = NoValue
  /\ i = 0
  /\ m = 0
  /\ predictions = <<>>
  /\ all_predictions = <<>>
  /\ health_analysis = <<>>
  /\ result = <<>>
  /\ stdout = <<>>
  /\ exit_code = -1
  /\ calls = <<>>
  /\ call = NoCall

\* ----------------------------------------------------------- main script
\* Faulty variant: the error is printed but sys.exit(1) is missing, so the script
\* goes on to the next statement.
ExitWithError_no_exit(msg) ==
  /\ stdout' = Append(stdout, [error |-> msg])
  /\ exit_code' = exit_code
  /\ pc' = IF pc = "validate" THEN "aggregate" ELSE "done"

\* print(json.dumps({"error": msg})); sys.exit(1)
ExitWithError(msg) ==
  /\ stdout' = Append(stdout, [error |-> msg])
  /\ exit_code' = 1
  /\ pc' = "done"

\* json.loads raises JSONDecodeError.
ParseError ==
  /\ pc = "start"
  /\ stdin.malformed
  /\ ExitWithError("Invalid JSON input: " \o "Expecting value")
  /\ UNCHANGED << stdin, input_data_array, i, m, predictions, all_predictions,
                  health_analysis, result, calls, call >>

\* input_data_array = json.loads(input_json)
Parse ==
  /\ pc = "start"
  /\ ~stdin.malformed
  /\ input_data_array' = stdin.value
  /\ pc' = "validate"
  /\ UNCHANGED << stdin, i, m, predictions, all_predictions, health_analysis,
                  result, stdout, exit_code, calls, call >>

\* validate_input returned an error: it is printed and the script exits.
ValidateReject ==
  /\ pc = "validate"
  /\ validate_input(input_data_array) # ""
  /\ ExitWithError(validate_input(input_data_array))
  /\ UNCHANGED << stdin, input_data_array, i, m, predictions, all_predictions,
                  health_analysis, result, calls, call >>

\* validate_input returned None: predict_from_models starts.
ValidateAccept ==
  /\ pc = "validate"
  /\ validate_input(input_data_array) = ""
  /\ all_predictions' = <<>>
  /\ health_analysis' = <<>>
  /\ predictions' = <<>>
  /\ i' = 1
  /\ m' = 1
  /\ pc' = IF Len(input_data_array.recs) >= 1 THEN "model" ELSE "aggregate"
  /\ UNCHANGED << stdin, input_data_array, result, stdout, exit_code, calls, call >>

\* predictions[key] = value
Put(dict, key, value) ==
  [q \in DOMAIN dict \cup {key} |-> IF q = key THEN value ELSE dict[q]]

\* The end of one iteration of the model loop.
NextModel ==
  IF m < Len(model_names) THEN m' = m + 1 /\ pc' = "model"
  ELSE m' = m /\ pc' = "health"

\* A required feature is invalid: "Insufficient Data", predict is not called.
FeatureMissing ==
  /\ pc = "model"
  /\ check_features(input_data_array.recs[i], feature_sets(model_names[m])) = "missing"
  /\ predictions' = Put(predictions, Key(model_names[m]), InsufficientData)
  /\ NextModel
  /\ UNCHANGED << stdin, input_data_array, i, all_predictions, health_analysis,
                  result, stdout, exit_code, calls, call >>

\* is_valid_number lets an exception escape the feature loop: the script's
\* "except Exception" prints str(e) and exits.
FeatureCheckEscapes ==
  /\ pc = "model"
  /\ check_features(input_data_array.recs[i], feature_sets(model_names[m]))
       \notin {"ok", "missing"}
  /\ ExitWithError("int too large to convert to float")
  /\ UNCHANGED << stdin, input_data_array, i, m, predictions, all_predictions,
                  health_analysis, result, calls, call >>

\* Every feature is valid: model.predict is called once, and what it returns
\* or raises becomes the record's prediction for the model.
Predict ==
  /\ pc = "model"
  /\ check_features(input_data_array.recs[i], feature_sets(model_names[m])) = "ok"
  /\ \E raw \in model_predict(model_names[m]) :
       /\ predictions' = Put(predictions, Key(model_names[m]), normalize_prediction(raw))
       /\ calls' = Append(calls, [record |-> i, model |-> model_names[m], exc |-> raw.exc])
  /\ NextModel
  /\ UNCHANGED << stdin, input_data_array, i, all_predictions, health_analysis,
                  result, stdout, exit_code, call >>

\* analyze_health raises: the script's "except Exception" prints and exits.
HealthEscapes ==
  /\ pc = "health"
  /\ analyze_health_raises(input_data_array.recs[i])
  /\ ExitWithError("int too large to convert to float")
  /\ UNCHANGED << stdin, input_data_array, i, m, predictions, all_predictions,
                  health_analysis, result, calls, call >>

\* health_info = analyze_health(input_data) and the two appends; then the
\* next record, or the end of the loop.
AnalyzeHealth ==
  /\ pc = "health"
  /\ ~analyze_health_raises(input_data_array.recs[i])
  /\ all_predictions' = Append(all_predictions, predictions)
  /\ health_analysis' =
       Append(health_analysis, analyze_health(input_data_array.recs[i]).complete_analysis)
  /\ predictions' = <<>>
  /\ IF i < Len(input_data_array.recs)
       THEN i' = i + 1 /\ m' = 1 /\ pc' = "model"
       ELSE i' = i /\ m' = m /\ pc' = "aggregate"
  /\ UNCHANGED << stdin, input_data_array, result, stdout, exit_code, calls, call >>

\* The rest of predict_from_models: aggregation, overall_health, the result.
Aggregate ==
  /\ pc = "aggregate"
  /\ result' = build_result(input_data_array.len, all_predictions, health_analysis)
  /\ pc' = "print"
  /\ UNCHANGED << stdin, input_data_array, i, m, predictions, all_predictions,
                  health_analysis, stdout, exit_code, calls, call >>

\* print(json.dumps(result)); the script ends with exit code 0.
PrintResult ==
  /\ pc = "print"
  /\ stdout' = Append(stdout, result)
  /\ exit_code' = 0
  /\ pc' = "done"
  /\ UNCHANGED << stdin, input_data_array, i, m, predictions, all_predictions,
                  health_analysis, result, calls, call >>

Next ==
  \/ ParseError
  \/ Parse
  \/ ValidateReject
  \/ ValidateAccept
  \/ FeatureMissing
  \/ FeatureCheckEscapes
  \/ Predict
  \/ HealthEscapes
  \/ AnalyzeHealth
  \/ Aggregate
  \/ PrintResult

Spec == Init /\ [][Next]_vars

\* ------------------------------------------- pure functions on their own
Idle ==
  /\ stdin = [malformed |-> TRUE, value |-> NoValue]
  /\ pc = "idle"
  /\ input_data_array = NoValue
  /\ i = 0
  /\ m = 0
  /\ predictions = <<>>
  /\ all_predictions = <<>>
  /\ health_analysis = <<>>
  /\ result = <<>>
  /\ stdout = <<>>
  /\ exit_code = -1
  /\ calls = <<>>

\* A key absent from a record's prediction map.
Missing == [k |-> "missing", n |-> 0, d |-> 1, s |-> ""]

\* The predictions one record may hold for a model: the two sentinels, finite
\* and non-finite floats, labels, a numeric label.
AggValues ==
  { InsufficientData, PredictionError("boom"), Float(1, 1), Float(2, 1), NaN, Inf,
    Str("A"), Str("B"), Str("1"), Missing }

\* The prediction maps of a batch in which model key has the predictions col
\* (the other models have none).
AggList(key, col) ==
  [j \in 1..Len(col) |->
     [q \in (IF col[j] = Missing THEN Keys \ {key} ELSE Keys) |->
        IF q = key THEN col[j] ELSE InsufficientData]]

AggInputs ==
  { AggList(key, col) :
      key \in Keys, col \in UNION { [1..len -> AggValues] : len \in 0..MaxAggLen } }

AggInit ==
  /\ Idle
  /\ call \in { [fn |-> "aggregate_predictions", predictions_list |-> l,
                 returned |-> FALSE, ret |-> <<>>] : l \in AggInputs }

AggregatePredictions ==
  /\ call.fn = "aggregate_predictions"
  /\ ~call.returned
  /\ call' = [call EXCEPT !.returned = TRUE,
                          !.ret = aggregate_predictions(call.predictions_list)]
  /\ UNCHANGED pipeline_vars

AggNext == AggregatePredictions

SpecAgg == AggInit /\ [][AggNext]_vars

\* Temperatures and vibrations around the thresholds, in tenths, and None.
CondTemperatures ==
  {None} \cup { Float(n, 10) : n \in (800 - Spread)..(800 + Spread) }
         \cup { Float(n, 10) : n \in (1000 - Spread)..(1000 + Spread) }

CondVibrations ==
  {None} \cup { Float(n, 10) : n \in (18 - Spread)..(18 + Spread) }
         \cup { Float(n, 10) : n \in (28 - Spread)..(28 + Spread) }

CondInit ==
  /\ Idle
  /\ call \in { [fn |-> "evaluate_machine_condition", temperature |-> t, vibration |-> v,
                 returned |-> FALSE, ret |-> ""] :
                t \in CondTemperatures, v \in CondVibrations }

EvaluateMachineCondition ==
  /\ call.fn = "evaluate_machine_condition"
  /\ ~call.returned
  /\ call' = [call EXCEPT !.returned = TRUE,
                          !.ret = evaluate_machine_condition(call.temperature, call.vibration)]
  /\ UNCHANGED pipeline_vars

CondNext == EvaluateMachineCondition

SpecCond == CondInit /\ [][CondNext]_vars

\* ================================================================ claims
\* What the run printed is the success payload (not an error object).
Succeeded == pc = "done" /\ Len(stdout) = 1 /\ "error" \notin DOMAIN stdout[1]

\* The per-record diagnosis of record j of the batch, as analyze_health derives it.
Diagnosis(j) == analyze_health(input_data_array.recs[j])

\* ---- C1
C1_Expected ==
  LET recs == input_data_array.recs IN
  IF \A j \in 1..Len(recs) :
       Diagnosis(j).complete_analysis.machine_condition = UnknownCondition
    THEN "Unknown - Insufficient Data"
  ELSE IF \E j \in 1..Len(recs) : Diagnosis(j).overall_health = "Unhealthy"
    THEN "Unhealthy"
  ELSE "Healthy"

\* C1: for every accepted batch, predictions.overall_health of the payload is
\* "Unknown - Insufficient Data" if every record's machine_condition is the
\* insufficient-data label, else "Unhealthy" if some record's verdict derived
\* by analyze_health is "Unhealthy", else "Healthy".
C1_BatchOverallHealth ==
  Succeeded => stdout[1].predictions["overall_health"] = Str(C1_Expected)

\* ---- C4
C4_BadShape ==
  /\ ~stdin.malformed
  /\ \/ ~stdin.value.isList
     \/ stdin.value.len = 0
     \/ stdin.value.len > 1800

\* C4: a parsed input that is not an array, or is an array of length 0 or of
\* length above 1800, ends the run with one error object and exit code 1,
\* no predict is ever invoked, and the empty and the oversized array get
\* different messages.
C4_BadShapeRejected ==
  C4_BadShape =>
    /\ calls = <<>>
    /\ pc \in {"start", "validate", "done"}
    /\ pc = "done" =>
         /\ exit_code # 0 /\ exit_code # -1
         /\ Len(stdout) = 1
         /\ DOMAIN stdout[1] = {"error"}
         /\ (stdin.value.isList /\ stdin.value.len = 0) =>
              stdout[1].error = "Input array cannot be empty"
         /\ (stdin.value.isList /\ stdin.value.len > 1800) =>
              stdout[1].error = "Input array exceeds maximum length of 1800"

\* An oversized array has been rejected.
C4_Witness ==
  /\ pc = "done"
  /\ stdin.value.isList /\ stdin.value.len = 1801
  /\ exit_code = 1
  /\ stdout = << [error |-> "Input array exceeds maximum length of 1800"] >>

\* ---- C5
\* The prediction recorded for record j and model_name, if any yet.
Recorded(j, model_name) ==
  IF j <= Len(all_predictions) THEN Get(all_predictions[j], Key(model_name))
  ELSE IF j = i THEN Get(predictions, Key(model_name))
  ELSE None

\* C5: when predict raises on a record, the record's prediction for that
\* model is "Prediction Error: <message>", every other model of the record
\* and every later record is still processed, and the run ends with the
\* success payload whatever calls fail.
C5_PredictFailureIsLocal ==
  \A c \in 1..Len(calls) :
    calls[c].exc # "" =>
      /\ Recorded(calls[c].record, calls[c].model) = Str("Prediction Error: " \o calls[c].exc)
      /\ pc = "done" =>
           /\ Succeeded
           /\ exit_code = 0
           /\ Len(all_predictions) = input_data_array.len
           /\ \A j \in 1..Len(all_predictions) : DOMAIN all_predictions[j] = Keys

\* ---- C6
\* Number of predict invocations logged for record j and model_name.
Invocations(j, model_name) ==
  Cardinality({ c \in 1..Len(calls) : calls[c].record = j /\ calls[c].model = model_name })

\* The value is absent, null, non-numeric, NaN or infinite.
C6_Unusable(value) ==
  \/ value.k \in {"NoneType", "nan", "inf"}
  \/ value.k = "str" /\ float_of_str(value.s).exc # ""

\* The value is a number (or numeric text) in the float range.
C6_Usable(value) ==
  \/ value.k \in {"int", "float"}
  \/ value.k = "str" /\ float_of_str(value.s).exc = ""

\* C6: for every record and model, an absent, null, non-numeric, NaN or
\* infinite required feature gives "Insufficient Data" without a predict
\* call; otherwise predict is invoked exactly once for the pair. (A feature
\* that is neither, an integer above the float range, may count either way.)
C6_InsufficientOrInvokedOnce ==
  (pc = "done" /\ validate_input(input_data_array) = "" /\ ~stdin.malformed) =>
    \A j \in 1..Len(input_data_array.recs) : \A q \in 1..Len(model_names) :
      LET rec == input_data_array.recs[j]
          fs == feature_sets(model_names[q])
          insufficient == /\ Recorded(j, model_names[q]) = Str("Insufficient Data")
                          /\ Invocations(j, model_names[q]) = 0
          invoked == Invocations(j, model_names[q]) = 1
      IN /\ (\E f \in 1..Len(fs) : C6_Unusable(Get(rec, fs[f]))) => insufficient
         /\ (\A f \in 1..Len(fs) : C6_Usable(Get(rec, fs[f]))) => invoked
         /\ insufficient \/ invoked

\* ---- C7
\* The prediction map holds no "Insufficient Data" value.
C7_Complete(p) == \A key \in DOMAIN p : p[key] # Str("Insufficient Data")

\* C7: in every success payload complete_records is the number of records
\* whose prediction map holds no "Insufficient Data" value (one whose only
\* failures are "Prediction Error" values is complete), incomplete_records
\* counts the others, and complete + incomplete = total = batch length.
C7_DataQualityCounts ==
  Succeeded =>
    LET dq == stdout[1].data_quality
        complete == { j \in 1..Len(all_predictions) : C7_Complete(all_predictions[j]) }
    IN /\ Len(all_predictions) = input_data_array.len
       /\ dq.complete_records = Cardinality(complete)
       /\ dq.incomplete_records = Len(all_predictions) - Cardinality(complete)
       /\ dq.complete_records + dq.incomplete_records = dq.total_records
       /\ dq.total_records = stdin.value.len

\* A payload that counts as complete a record with a "Prediction Error" value,
\* beside an incomplete record.
C7_Witness ==
  /\ Succeeded
  /\ stdout[1].data_quality.complete_records >= 1
  /\ stdout[1].data_quality.incomplete_records >= 1
  /\ \E j \in 1..Len(all_predictions) :
       /\ C7_Complete(all_predictions[j])
       /\ \E key \in Keys : all_predictions[j][key] = Str("Prediction Error: boom")

\* ---- C8
\* The diagnosis the payload reports for record j.
Reported(j) ==
  IF input_data_array.len = 1 THEN stdout[1].complete_health_analysis
  ELSE stdout[1].complete_health_analysis[j]

\* C8: each diagnosis reported in complete_health_analysis carries an
\* overall_health: "Unknown" for the insufficient-data condition, "Healthy"
\* exactly for "Safe Condition", "Unhealthy" otherwise; temperature 70 and
\* vibration 1.0 give "Safe Condition" and "Healthy".
C8_DiagnosisCarriesOverallHealth ==
  Succeeded =>
    \A j \in 1..Len(input_data_array.recs) :
      LET h == Reported(j) IN
      /\ "overall_health" \in DOMAIN h
      /\ h.overall_health =
           IF h.machine_condition = "Unknown Condition - Insufficient Data" THEN "Unknown"
           ELSE IF h.machine_condition = "Safe Condition" THEN "Healthy"
           ELSE "Unhealthy"
      /\ input_data_array.recs[j] = RecHealthy =>
           h.machine_condition = "Safe Condition" /\ h.overall_health = "Healthy"

\* ---- C10
C10_OneOutput ==
  /\ Len(stdout) <= 1
  /\ pc # "done" => stdout = <<>> /\ exit_code = -1
  /\ pc = "done" =>
       /\ Len(stdout) = 1
       /\ \/ /\ exit_code = 0
             /\ DOMAIN stdout[1] = {"predictions", "complete_health_analysis", "data_quality"}
             /\ ~stdin.malformed
             /\ stdin.value.isList /\ stdin.value.len >= 1 /\ stdin.value.len <= 1800
             /\ Len(all_predictions) = stdin.value.len
             /\ Len(health_analysis) = stdin.value.len
             /\ \A j \in 1..Len(all_predictions) : DOMAIN all_predictions[j] = Keys
             /\ DOMAIN stdout[1].predictions = Keys \cup {"overall_health"}
          \/ /\ exit_code # 0 /\ exit_code # -1
             /\ DOMAIN stdout[1] = {"error"}

\* Steps the script has left at most: the models and the health analysis of
\* each remaining record, then aggregation and the print.
C10_StepsLeft ==
  LET total == IF pc = "start" THEN Len(stdin.value.recs) ELSE Len(input_data_array.recs)
      perRecord == Len(model_names) + 1
  IN CASE pc = "start"     -> total * perRecord + 4
       [] pc = "validate"  -> total * perRecord + 3
       [] pc = "model"     -> (total - i) * perRecord + (perRecord - m) + 3
       [] pc = "health"    -> (total - i) * perRecord + 3
       [] pc = "aggregate" -> 2
       [] pc = "print"     -> 1
       [] OTHER            -> 0

\* Some statement of the script can execute. (For the health analysis of a
\* record that does not raise, the guard of AnalyzeHealth is written out.)
C10_CanStep ==
  IF pc = "health"
    THEN \/ ENABLED HealthEscapes
         \/ i \in 1..Len(input_data_array.recs)
              /\ ~analyze_health_raises(input_data_array.recs[i])
    ELSE ENABLED (ParseError \/ Parse \/ ValidateReject \/ ValidateAccept \/ FeatureMissing
                  \/ FeatureCheckEscapes \/ Predict \/ Aggregate \/ PrintResult)

\* C10: every run ends having printed exactly one JSON value: the success
\* payload, after every record was processed and aggregated, with exit code
\* 0, or one error object with a non-zero exit code; never both, never a
\* payload after a failure, never nothing. (The run ends: until it is done a
\* step is always possible, and every step lowers the steps left.)
C10_ExactlyOneOutput ==
  /\ [](C10_OneOutput /\ (pc # "done" => C10_CanStep))
  /\ [][C10_StepsLeft' < C10_StepsLeft /\ C10_StepsLeft' >= 0]_vars

\* A batch of two records ended with the payload.
C10_Witness ==
  /\ pc = "done"
  /\ exit_code = 0
  /\ stdin.value.len = 2
  /\ Len(stdout) = 1

\* ---- C2, C3
\* "Insufficient Data" or "Prediction Error: ...".
IsSentinel(v) == v = Str("Insufficient Data") \/ v = Str("Prediction Error: boom")

\* A non-numeric string that is not a sentinel.
IsLabel(v) == v.k = "str" /\ ~IsSentinel(v) /\ float_of_str(v.s).exc # ""

\* The predictions of the records of l for key, in record order.
Column(l, key) ==
  LET present == SelectSeq(l, LAMBDA pred : key \in DOMAIN pred)
  IN [j \in 1..Len(present) |-> present[j][key]]

NonSentinel(l, key) == SelectSeq(Column(l, key), LAMBDA v : ~IsSentinel(v))

\* The most frequent element of a non-empty list, the first in list order
\* among those with the highest count.
FirstMode(values) ==
  LET occ(j) == Cardinality({ l \in 1..Len(values) : values[l] = values[j] })
      j0 == CHOOSE j \in 1..Len(values) :
              /\ \A l \in 1..Len(values) : occ(l) <= occ(j)
              /\ \A l \in 1..(j - 1) : occ(l) < occ(j)
  IN values[j0]

\* C2: in aggregate_predictions, a model whose outputs include label
\* (non-numeric string) predictions gets as consensus the most frequent of
\* its non-sentinel predictions, the first in record order on a tie.
C2_LabelMajorityVote ==
  call.returned =>
    \A key \in Keys :
      LET survivors == NonSentinel(call.predictions_list, key) IN
      (\E j \in 1..Len(survivors) : IsLabel(survivors[j])) =>
        call.ret[key] = PyStr(FirstMode(survivors))

\* The list without the records whose prediction for key satisfies drop.
Without(l, key, drop(_)) ==
  SelectSeq(l, LAMBDA pred : ~(key \in DOMAIN pred /\ drop(pred[key])))

IsFloat(v) == v.k \in {"float", "nan", "inf"}
IsFinite(v) == v.k = "float"

\* x is the exact mean of the non-empty list of finite floats.
IsMeanOf(x, values) ==
  LET t == RatSum(values)
  IN x.k = "float" /\ x.n * (t.d * Len(values)) = t.n * x.d

\* C3 as stated: sentinels never take part in the consensus; with no
\* non-sentinel prediction the consensus is "Insufficient Data"; when all
\* non-sentinel predictions are numeric it is the arithmetic mean of exactly
\* those (not a finite number when one of them is NaN or infinite).
C3_MeanOfNonSentinel ==
  call.returned =>
    \A key \in Keys :
      LET l == call.predictions_list
          survivors == NonSentinel(l, key)
      IN /\ call.ret[key] = aggregate_predictions(Without(l, key, IsSentinel))[key]
         /\ survivors = <<>> => call.ret[key] = Str("Insufficient Data")
         /\ (survivors # <<>> /\ \A j \in 1..Len(survivors) : IsFloat(survivors[j])) =>
              IF \A j \in 1..Len(survivors) : IsFinite(survivors[j])
                THEN IsMeanOf(call.ret[key], survivors)
                ELSE call.ret[key].k \in {"nan", "inf"}

\* C3 amended: sentinels and non-finite numeric predictions never take part;
\* with no non-sentinel prediction the consensus is "Insufficient Data";
\* when all non-sentinel predictions are numeric it is the arithmetic mean of
\* exactly the finite ones, and "Insufficient Data" when none is finite.
C3_MeanOfFiniteNonSentinel ==
  call.returned =>
    \A key \in Keys :
      LET l == call.predictions_list
          survivors == NonSentinel(l, key)
          finite == SelectSeq(survivors, IsFinite)
          dropped(v) == IsSentinel(v) \/ v.k \in {"nan", "inf"}
      IN /\ call.ret[key] = aggregate_predictions(Without(l, key, dropped))[key]
         /\ survivors = <<>> => call.ret[key] = Str("Insufficient Data")
         /\ (survivors # <<>> /\ \A j \in 1..Len(survivors) : IsFloat(survivors[j])) =>
              IF finite # <<>> THEN IsMeanOf(call.ret[key], finite)
              ELSE call.ret[key] = Str("Insufficient Data")

\* The mean 3/2 of the predictions 1.0 and 2.0 of a model that also has a
\* sentinel and a non-finite prediction in the batch.
C3_Witness ==
  /\ call.fn = "aggregate_predictions"
  /\ call.returned
  /\ \E key \in Keys :
       LET col == Column(call.predictions_list, key) IN
       /\ Len(col) = 3
       /\ \E j \in 1..3 : IsSentinel(col[j])
       /\ \E j \in 1..3 : col[j] = Float(1, 1)
       /\ \E j \in 1..3 : col[j] = Float(2, 1)
       /\ call.ret[key].k = "float"
       /\ 2 * call.ret[key].n = 3 * call.ret[key].d

\* ---- C9
\* C9: evaluate_machine_condition gives the insufficient-data label when an
\* argument is absent; otherwise "Safe Condition" iff temp < 80 and
\* vib < 1.8, else "Maintain Condition" iff temp < 100 and vib < 2.8, else
\* "Repair Condition"; (80, 1.7) is Maintain and (79.9, 1.7) is Safe.
C9_ConditionThresholds ==
  call.returned =>
    LET t == call.temperature
        v == call.vibration
        safe == t.n < 800 /\ v.n < 18
        maintain == ~safe /\ t.n < 1000 /\ v.n < 28
    IN IF t = None \/ v = None
         THEN call.ret = "Unknown Condition - Insufficient Data"
       ELSE /\ t.d = 10 /\ v.d = 10
            /\ call.ret = "Safe Condition" <=> safe
            /\ call.ret = "Maintain Condition" <=> maintain
            /\ call.ret = "Repair Condition" <=> (~safe /\ ~maintain)
            /\ (t.n = 800 /\ v.n = 17) => call.ret = "Maintain Condition"
            /\ (t.n = 799 /\ v.n = 17) => call.ret = "Safe Condition"

\* The call on (80, 1.7) returned "Maintain Condition".
C9_Witness ==
  /\ call.fn = "evaluate_machine_condition"
  /\ call.returned
  /\ call.temperature = Float(800, 10)
  /\ call.vibration = Float(17, 10)
  /\ call.ret = "Maintain Condition"

====
